---- MODULE Spec2Model ----
(***************************************************************************)
(* Model of src/app.py: a Streamlit dashboard script.  The script loads a  *)
(* CSV file (cargar_datos), computes a fixed set of pandas aggregates and  *)
(* renders a page with four widgets.  Streamlit executes the script from   *)
(* top to bottom when a session starts and again after every change of a   *)
(* widget value; an uncaught exception ends the run at the raising line.   *)
(*                                                                         *)
(* A DataFrame is a sequence of rows; a row is a record with one field per *)
(* column.  Column names are shortened:                                    *)
(*   anio      'Año del hecho'                                             *)
(*   ciclo     'Ciclo Vital'                                               *)
(*   sexo      'Sexo de la victima'                                        *)
(*   depto     'Departamento del hecho DANE'                               *)
(*   escenario 'Escenario del Hecho'                                       *)
(*   mecanismo 'Mecanismo Causal de la Lesion Fatal'                       *)
(*   razon     'Razon del Suicidio'                                        *)
(* A value_counts()/groupby().size() result is a sequence of records with  *)
(* the key column(s) and the count column Cantidad.                        *)
(***************************************************************************)
EXTENDS Integers, Sequences, FiniteSets, TLC

VARIABLES
    archivo,              \* rows of ./data/PresuntosSuicidios.csv, as text
    estado,               \* "inicio" | "ok" | "ValueError" | "ZeroDivisionError" | "IndexError"
    linea_error,          \* line of app.py at which the latest run raised, 0 if none
    definidas,            \* names bound by the latest run of the script
    cargas,               \* number of calls of cargar_datos so far
    calculos_fijos,       \* number of executions of the block of lines 27-94
    calculos_dinamicos,   \* number of computations of df_razones_dinamico
    incluir_sin_info, ciclo_seleccionado, genero_seleccionado, depto_seleccionado,
    df,
    num_registros, num_columnas, num_departamentos, num_anios, anio_min, anio_max,
    df_ciclo, df_genero, df_genero_ciclo, df_temporal, indicadores, deltas,
    df_depto_anio, lista_deptos, df_escenario, df_mecanismo, df_razones,
    df_razones_filtrado, df_depto_filtrado, df_filtrado, df_razones_dinamico,
    hombres, mujeres,     \* lines 315-316
    variacion_total,      \* line 405, as the exact quotient num / den
    top5,                 \* line 597; the loop of line 598 runs once per entry
    hallazgo              \* lines 602-623: the branch taken and what it read

widgets == <<incluir_sin_info, ciclo_seleccionado, genero_seleccionado, depto_seleccionado>>

generales == <<num_registros, num_columnas, num_departamentos, num_anios, anio_min, anio_max>>

fijos == <<df_ciclo, df_genero, df_genero_ciclo, df_temporal, indicadores, deltas,
           df_depto_anio, lista_deptos, df_escenario, df_mecanismo, df_razones,
           df_razones_filtrado>>

dinamicos == <<df_depto_filtrado, df_filtrado, df_razones_dinamico>>

pagina == <<hombres, mujeres, variacion_total, top5, hallazgo>>

vars == <<archivo, estado, linea_error, definidas, cargas, calculos_fijos,
          calculos_dinamicos, widgets, df, generales, fijos, dinamicos, pagina>>

----------------------------------------------------------------------------
(* Bounds of the model *)

\* Rows of the file that are drawn freely from Pool.
MaxRows == 2

\* Rows of the optional leading block of records with pairwise distinct
\* scene, mechanism and reason (more than the 10 a top-10 view keeps).
BlockLen == 11

\* Script runs per behaviour (the first run and the reruns after widget changes).
MaxRuns == 3

----------------------------------------------------------------------------
(* Values *)

Sentinel == "Sin informacion"

\* The missing value that read_csv puts in an object column.
NaN == "<NaN>"

\* The missing value (float nan) in the numeric column anio.
NaNf == -1

Columns == {"anio", "ciclo", "sexo", "depto", "escenario", "mecanismo", "razon"}

columnas_str == {"depto", "ciclo", "sexo", "escenario", "mecanismo", "razon"}

\* Field texts that read_csv reads as missing (pandas' default na_values).
NaValues == {"", "#N/A", "#N/A N/A", "#NA", "-1.#IND", "-1.#QNAN", "-NaN", "-nan",
             "1.#IND", "1.#QNAN", "<NA>", "N/A", "NA", "NULL", "NaN", "None",
             "n/a", "nan", "null"}

\* Python's order of the strings that the script sorts (by code point).
Collation == <<"Adultez", "Antioquia", "Cauca", "Hombre", "Indeterminado",
               "Juventud", "Mujer", "Sin informacion">>

Rank(s) == CHOOSE k \in DOMAIN Collation : Collation[k] = s

StrLess(a, b) == Rank(a) < Rank(b)

Min2(a, b) == IF a <= b THEN a ELSE b

\* The sequence f with every element evaluated.
Lista(f) == f \o <<>>

----------------------------------------------------------------------------
(* The input files *)

Row(a, c, s, d, e, m, r) ==
    [anio |-> a, ciclo |-> c, sexo |-> s, depto |-> d,
     escenario |-> e, mecanismo |-> m, razon |-> r]

RazonNames == <<"Conflicto de pareja", "Enfermedad mental", "Economicas",
                "Desamor", "Enfermedad fisica", "Muerte de un familiar",
                "Escolares", "Juridicas", "Laborales", "Maltrato",
                "Bullying", "Soledad", "Consumo de sustancias">>

EscenarioNames == <<"Vivienda", "Via publica", "Finca", "Rio", "Hotel", "Carcel",
                    "Bosque", "Hospital", "Puente", "Colegio", "Parque",
                    "Oficina", "Bodega">>

MecanismoNames == <<"Ahorcamiento", "Toxico", "Arma de fuego", "Caida",
                    "Cortopunzante", "Sumersion", "Quemadura", "Ferrea",
                    "Explosivo", "Electrico", "Aplastamiento", "Vehiculo",
                    "Termico">>

\* The years of the block: 2023 has no record.
YearTexts == <<"2021", "2022", "2024">>

DeptoNames == <<"Antioquia", "Cauca", "Sin informacion">>

BloqueRow(i) ==
    Row(YearTexts[(i % 3) + 1],
        IF i % 6 = 0 THEN "Juventud" ELSE "Adultez",
        IF i % 5 = 0 THEN "Mujer" ELSE "Hombre",
        DeptoNames[((i \div 2) % 3) + 1],
        EscenarioNames[i], MecanismoNames[i], RazonNames[i])

Bloque(n) == [i \in 1..n |-> BloqueRow(i)]

Pool == {
    Row("2021", "Adultez", "Hombre", "Antioquia", "Vivienda", "Ahorcamiento", Sentinel),
    Row("2024", "Adultez", "Mujer", "Cauca", "Vivienda", "Toxico", Sentinel),
    Row("2022", "Juventud", "Mujer", Sentinel, "Via publica", "Toxico", "Conflicto de pareja"),
    Row("2021", "Adultez", "Indeterminado", Sentinel, "Vivienda", "Ahorcamiento", "Enfermedad mental"),
    Row("2020", "Juventud", "Hombre", "Cauca", "Via publica", "Ahorcamiento", "Soledad"),
    Row("", "Adultez", "Hombre", "Antioquia", "Vivienda", "Ahorcamiento", "Enfermedad mental"),
    Row("2022", "Juventud", "Hombre", "Cauca", "Vivienda", "Ahorcamiento", "NA"),
    Row("2020", "Juventud", "Mujer", Sentinel, "", "Toxico", Sentinel)
}

Libres == UNION {[1..n -> Pool] : n \in 0..MaxRows}

\* The rows that may follow the block: two with the sentinel reason (so that
\* the sentinel outranks every reason of the block) and one with a missing year.
PoolBloque == {r \in Pool : r.ciclo = "Adultez" /\ r.sexo # "Indeterminado"}

LibresBloque == UNION {[1..n -> PoolBloque] : n \in 0..MaxRows}

Tablas == Libres \cup {Bloque(BlockLen) \o l : l \in LibresBloque}

----------------------------------------------------------------------------
(* cargar_datos *)

ParseInt(t) ==
    CASE t = "2020" -> 2020
      [] t = "2021" -> 2021
      [] t = "2022" -> 2022
      [] t = "2023" -> 2023
      [] t = "2024" -> 2024

\* One cell as read_csv types it: a missing marker, an integer year, or text.
ParseCell(c, t) ==
    IF c = "anio"
    THEN IF t \in NaValues THEN NaNf ELSE ParseInt(t)
    ELSE IF t \in NaValues THEN NaN ELSE t

ParseRow(r) ==
    [anio |-> ParseCell("anio", r.anio), ciclo |-> ParseCell("ciclo", r.ciclo),
     sexo |-> ParseCell("sexo", r.sexo), depto |-> ParseCell("depto", r.depto),
     escenario |-> ParseCell("escenario", r.escenario),
     mecanismo |-> ParseCell("mecanismo", r.mecanismo),
     razon |-> ParseCell("razon", r.razon)]

read_csv(file) == Lista([i \in DOMAIN file |-> ParseRow(file[i])])

isna(c, x) == IF c = "anio" THEN x = NaNf ELSE x = NaN

dropna_solo_categoricas(d) ==
    SelectSeq(d, LAMBDA r : \A c \in columnas_str : ~isna(c, r[c]))

dropna(d) == SelectSeq(d, LAMBDA r : \A c \in Columns : ~isna(c, r[c]))

\* str(x) of a cell of an object column: the text itself, 'nan' for a missing value.
astype_str(x) == IF x = NaN THEN "nan" ELSE x

\* lines 20-21: the six columns of columnas_str, each through astype(str)
astype_columnas(r) ==
    [anio |-> r.anio, ciclo |-> astype_str(r.ciclo), sexo |-> astype_str(r.sexo),
     depto |-> astype_str(r.depto), escenario |-> astype_str(r.escenario),
     mecanismo |-> astype_str(r.mecanismo), razon |-> astype_str(r.razon)]

cargar_datos(file) ==
    LET d0 == read_csv(file)
        df_limpio == dropna(d0)
    IN  Lista([i \in DOMAIN df_limpio |-> astype_columnas(df_limpio[i])])

----------------------------------------------------------------------------
(* pandas operations used by the script *)

Columna(d, c) == Lista([i \in DOMAIN d |-> d[i][c]])

Valores(s) == {s[i] : i \in DOMAIN s}

\* Series.unique(): the distinct values in order of first appearance.
unique(s) ==
    LET idx == SelectSeq([i \in DOMAIN s |-> i],
                         LAMBDA i : \A j \in 1..(i - 1) : s[j] # s[i])
    IN  Lista([k \in DOMAIN idx |-> s[idx[k]]])

nunique(s) == Len(unique(s))

Conteo(s, k) == Cardinality({i \in DOMAIN s : s[i] = k})

\* A stable sort of s by the ascending integer keys ks (ks[i] is the key of s[i]).
OrdenarPor(s, ks) ==
    LET n == Len(s)
        pos == Lista([i \in 1..n |-> 1 + Cardinality({j \in 1..n :
                        ks[j] < ks[i] \/ (ks[j] = ks[i] /\ j < i)})])
        inv == Lista([p \in 1..n |-> CHOOSE i \in 1..n : pos[i] = p])
    IN  Lista([p \in 1..n |-> s[inv[p]]])

value_counts_truncado(s) ==
    LET u == unique(s)
        c == Lista([i \in DOMAIN u |-> [key |-> u[i], Cantidad |-> Conteo(s, u[i])]])
        v == OrdenarPor(c, Lista([i \in DOMAIN c |-> 0 - c[i].Cantidad]))
    IN  SubSeq(v, 1, IF Len(v) < 10 THEN Len(v) ELSE 10)

value_counts_ascendente(s) ==
    LET u == unique(s)
        c == Lista([i \in DOMAIN u |-> [key |-> u[i], Cantidad |-> Conteo(s, u[i])]])
    IN  OrdenarPor(c, Lista([i \in DOMAIN c |-> c[i].Cantidad]))

\* Series.value_counts().reset_index(): one row per distinct value, by
\* descending count, equal counts in order of first appearance.
value_counts(s) ==
    LET u == unique(s)
        c == Lista([i \in DOMAIN u |-> [key |-> u[i], Cantidad |-> Conteo(s, u[i])]])
    IN  OrdenarPor(c, Lista([i \in DOMAIN c |-> 0 - c[i].Cantidad]))

head(s, n) == SubSeq(s, 1, Min2(n, Len(s)))

\* The 10 of .head(10)
TopN == 10

\* df[df[c] != v]
filtrar_distinto(d, c, v) == SelectSeq(d, LAMBDA r : r[c] # v)

\* df[df[c] == v]
filtrar_igual(d, c, v) == SelectSeq(d, LAMBDA r : r[c] = v)

sort_values_anio(t) == OrdenarPor(t, Lista([i \in DOMAIN t |-> t[i].anio]))

\* df.groupby('Año del hecho').size().reset_index(name='Cantidad')
groupby_anio(d) ==
    LET k == Columna(d, "anio")
        u == unique(k)
        c == Lista([i \in DOMAIN u |-> [anio |-> u[i], Cantidad |-> Conteo(k, u[i])]])
    IN  OrdenarPor(c, Lista([i \in DOMAIN c |-> c[i].anio]))

\* df.groupby(['Ciclo Vital', 'Sexo de la victima']).size().reset_index(name='Cantidad'):
\* the observed pairs, ordered by stage and then by sex
groupby_ciclo_sexo(d) ==
    LET k == Lista([i \in DOMAIN d |-> <<d[i].ciclo, d[i].sexo>>])
        u == unique(k)
        c == Lista([i \in DOMAIN u |->
                [ciclo |-> u[i][1], sexo |-> u[i][2], Cantidad |-> Conteo(k, u[i])]])
        porSexo == OrdenarPor(c, Lista([i \in DOMAIN c |-> Rank(c[i].sexo)]))
    IN  OrdenarPor(porSexo, Lista([i \in DOMAIN c |-> Rank(porSexo[i].ciclo)]))

\* df.groupby(['Departamento del hecho DANE', 'Año del hecho']).size().reset_index(name='Cantidad'):
\* the observed pairs, ordered by department and then by year
groupby_depto_anio(d) ==
    LET k == Lista([i \in DOMAIN d |-> <<d[i].depto, d[i].anio>>])
        u == unique(k)
        c == Lista([i \in DOMAIN u |->
                [depto |-> u[i][1], anio |-> u[i][2], Cantidad |-> Conteo(k, u[i])]])
        porAnio == OrdenarPor(c, Lista([i \in DOMAIN c |-> c[i].anio]))
    IN  OrdenarPor(porAnio, Lista([i \in DOMAIN c |-> Rank(porAnio[i].depto)]))

\* list.sort() and sorted() of a list of strings
sorted(l) == OrdenarPor(l, Lista([i \in DOMAIN l |-> Rank(l[i])]))

\* Series.min() and Series.max(): nan for an empty column.
pd_min(s) == IF s = <<>> THEN NaNf
             ELSE CHOOSE x \in Valores(s) : \A y \in Valores(s) : x <= y

pd_max(s) == IF s = <<>> THEN NaNf
             ELSE CHOOSE x \in Valores(s) : \A y \in Valores(s) : x >= y

\* int(x) raises ValueError exactly when x is nan.
int_raises(x) == x = NaNf

RECURSIVE Suma(_)
Suma(t) == IF t = <<>> THEN 0 ELSE t[1].Cantidad + Suma(Tail(t))

\* (a / b * 100).round(1), in tenths of a percent (round half to even).
porcentaje(a, b) ==
    LET q == (a * 1000) \div b
        r == (a * 1000) % b
    IN  IF 2 * r > b \/ (2 * r = b /\ q % 2 = 1) THEN q + 1 ELSE q

----------------------------------------------------------------------------
(* The script: lines 25-94 (fixed aggregates) and the widget-driven part *)

anios_indicadores == <<2021, 2022, 2023, 2024>>

\* indicadores[anio], lines 57-61
indicador(t, a) ==
    IF \E i \in DOMAIN t : t[i].anio = a
    THEN t[CHOOSE i \in DOMAIN t : t[i].anio = a /\ \A j \in 1..(i - 1) : t[j].anio # a].Cantidad
    ELSE 0

calc_indicadores(t) ==
    [a \in Valores(anios_indicadores) |-> indicador(t, a)]

\* a / b of two Python ints, kept exact as the pair (num, den); den = 0 is the
\* division that raises ZeroDivisionError.
truediv(a, b) == [num |-> a, den |-> b]

Cero == [num |-> 0, den |-> 1]

delta_sin_guarda(ind, i) ==
    IF i > 1
    THEN truediv(ind[anios_indicadores[i]] - ind[anios_indicadores[i - 1]],
                 ind[anios_indicadores[i - 1]])
    ELSE Cero

\* deltas[anios_indicadores[i]], lines 64-72
delta(ind, i) ==
    IF i > 1
    THEN IF ind[anios_indicadores[i - 1]] > 0
         THEN truediv(ind[anios_indicadores[i]] - ind[anios_indicadores[i - 1]],
                      ind[anios_indicadores[i - 1]])
         ELSE Cero
    ELSE Cero

calc_deltas(ind) ==
    [a \in Valores(anios_indicadores) |->
        delta(ind, CHOOSE i \in DOMAIN anios_indicadores : anios_indicadores[i] = a)]

num_departamentos_con_sentinel(d) == nunique(Columna(d, "depto"))

\* lines 30-31
calc_num_departamentos(d) ==
    nunique(Columna(filtrar_distinto(d, "depto", Sentinel), "depto"))

\* lines 76-77; after cargar_datos no cell is missing, and .dropna() drops none
calc_lista_deptos(d) ==
    sorted(unique(SelectSeq(Columna(d, "depto"), LAMBDA x : x # NaN)))

calc_df_temporal_sin_agrupar(d) ==
    sort_values_anio(Lista([i \in DOMAIN d |-> [anio |-> d[i].anio, Cantidad |-> 1]]))

\* one entry per year of 2020..2024, with 0 for a year without records
calc_df_temporal_rango_fijo(d) ==
    sort_values_anio(Lista([k \in 1..5 |->
        [anio |-> 2019 + k, Cantidad |-> Conteo(Columna(d, "anio"), 2019 + k)]]))

\* lines 48-49
calc_df_temporal(d) == sort_values_anio(groupby_anio(d))

\* lines 40-42; Porcentaje in tenths of a percent
calc_df_genero(d) ==
    LET vc == value_counts(Columna(d, "sexo"))
        total == Suma(vc)
    IN  Lista([i \in DOMAIN vc |->
            [key |-> vc[i].key, Cantidad |-> vc[i].Cantidad,
             Porcentaje |-> porcentaje(vc[i].Cantidad, total)]])

top_sin_truncar(d, c) == value_counts(Columna(d, c))

\* df[c].value_counts().head(10).reset_index(), lines 80, 84, 88
top(d, c) == head(value_counts(Columna(d, c)), TopN)

top_sin_sentinel_tardio(d, c) ==
    SelectSeq(head(value_counts(Columna(d, c)), TopN), LAMBDA r : r.key # Sentinel)

\* df[df[c] != 'Sin informacion'][c].value_counts().head(10).reset_index(), lines 92, 562
top_sin_sentinel(d, c) ==
    head(value_counts(Columna(filtrar_distinto(d, c, Sentinel), c)), TopN)

aplicar_filtros_solo_ciclo(d, cic, gen) ==
    IF cic # "Todos" THEN filtrar_igual(d, "ciclo", cic) ELSE d

\* the filters applied to the rows the previous selection left
aplicar_filtros_acumulado(d, cic, gen) ==
    LET d0 == IF "df_filtrado" \in definidas THEN df_filtrado ELSE d
        d1 == IF cic # "Todos" THEN filtrar_igual(d0, "ciclo", cic) ELSE d0
    IN  IF gen # "Todos" THEN filtrar_igual(d1, "sexo", gen) ELSE d1

\* lines 549-556
aplicar_filtros(d, cic, gen) ==
    LET d1 == IF cic # "Todos" THEN filtrar_igual(d, "ciclo", cic) ELSE d
    IN  IF gen # "Todos" THEN filtrar_igual(d1, "sexo", gen) ELSE d1

\* lines 559-562
calc_razones_dinamico(d, inc) ==
    IF inc THEN top(d, "razon") ELSE top_sin_sentinel(d, "razon")

\* st.selectbox: the value held by the session if it is an option, else options[index]
selectbox(options, index, valor) ==
    IF valor \in Valores(options) THEN valor ELSE options[index]

\* lines 423-427
depto_index(l) ==
    IF "Antioquia" \in Valores(l)
    THEN CHOOSE i \in DOMAIN l : l[i] = "Antioquia"
    ELSE 1

opciones_ciclo(d) == <<"Todos">> \o sorted(unique(Columna(d, "ciclo")))

opciones_genero == <<"Todos", "Hombre", "Mujer">>

NombresGenerales == {"df", "num_registros", "num_columnas", "num_departamentos", "num_anios"}

NombresFijos == {"anio_min", "anio_max", "df_ciclo", "df_genero", "df_genero_ciclo",
                 "df_temporal", "indicadores", "deltas", "df_depto_anio",
                 "lista_deptos", "df_escenario", "df_mecanismo", "df_razones",
                 "df_razones_filtrado"}

NombresDinamicos == {"df_depto_filtrado", "df_filtrado", "df_razones_dinamico"}

NombresPagina == {"hombres", "mujeres", "variacion_total", "top5", "hallazgo"}

\* s.values[0] and s.iloc[0] raise IndexError exactly when s is empty.
index0_raises(s) == s = <<>>

\* df_genero[df_genero['Sexo'] == sexo]['Cantidad'].values, lines 315-316
cantidad_genero(g, sexo) ==
    Lista([i \in DOMAIN filtrar_igual(g, "key", sexo) |->
              filtrar_igual(g, "key", sexo)[i].Cantidad])

\* lines 403-405: ((casos_final - casos_inicial) / casos_inicial) * 100 on the
\* first and last entries of df_temporal, kept exact as num / den
calc_variacion_total(t) ==
    [num |-> (t[Len(t)].Cantidad - t[1].Cantidad) * 100, den |-> t[1].Cantidad]

\* the first entry read without the test of line 602
hallazgo_sin_guarda(v) ==
    IF index0_raises(v)
    THEN [tipo |-> "IndexError"]
    ELSE [tipo |-> "info", razon_principal |-> v[1].key, casos_razon |-> v[1].Cantidad]

\* lines 602-623: st.info about the first entry, or st.warning when there is none
calc_hallazgo(v) ==
    IF Len(v) > 0
    THEN [tipo |-> "info", razon_principal |-> v[1].key, casos_razon |-> v[1].Cantidad]
    ELSE [tipo |-> "warning"]

\* One run of the script with the widget values inc, cic, gen, dep held by
\* the session (dep = "" before the department selectbox was ever drawn).
\* fin is the line at which the run raises (0: it reaches the end); a line
\* after fin is not executed and the names it binds keep no value.
Script(inc, cic, gen, dep) ==
    \E d \in {cargar_datos(archivo)} :
    \E minimo \in {pd_min(Columna(d, "anio"))}, maximo \in {pd_max(Columna(d, "anio"))} :
    \E temporal \in {calc_df_temporal(d)} :
    \E ind \in {calc_indicadores(temporal)} :
    \E del \in {calc_deltas(ind)} :
    \E lista \in {calc_lista_deptos(d)}, depto_anio \in {groupby_depto_anio(d)} :
    \E genero \in {calc_df_genero(d)} :
    \E ciclosel \in {selectbox(opciones_ciclo(d), 1, cic)},
       gensel \in {selectbox(opciones_genero, 1, gen)} :
    \E filtrado \in {aplicar_filtros(d, ciclosel, gensel)} :
    \E dinamico \in {calc_razones_dinamico(filtrado, inc)} :
    \E hz \in {calc_hallazgo(dinamico)} :
    \E fin \in {IF int_raises(minimo) THEN 33
                ELSE IF int_raises(maximo) THEN 34
                ELSE IF \E a \in DOMAIN del : del[a].den = 0 THEN 68
                ELSE IF index0_raises(cantidad_genero(genero, "Hombre")) THEN 315
                ELSE IF index0_raises(cantidad_genero(genero, "Mujer")) THEN 316
                ELSE IF hz.tipo = "IndexError" THEN 603
                ELSE 0} :
    LET Hecho(l) == fin = 0 \/ fin > l
        depsel == selectbox(lista, depto_index(lista), dep)
    IN  /\ UNCHANGED archivo
        /\ cargas' = cargas + 1
        /\ linea_error' = fin
        /\ estado' = IF fin = 0 THEN "ok"
                     ELSE IF fin \in {33, 34} THEN "ValueError"
                     ELSE IF fin = 68 THEN "ZeroDivisionError"
                     ELSE "IndexError"
        /\ definidas' =
              NombresGenerales
              \cup {n \in {"anio_min"} : Hecho(33)}
              \cup {n \in {"anio_max", "df_ciclo", "df_genero", "df_genero_ciclo",
                           "df_temporal", "indicadores"} : Hecho(34)}
              \cup {n \in NombresFijos : Hecho(68)}
              \cup {n \in {"hombres"} : Hecho(315)}
              \cup {n \in {"mujeres", "variacion_total"} \cup NombresDinamicos
                           \cup {"top5"} : Hecho(316)}
              \cup {n \in {"hallazgo"} : Hecho(603)}
        \* lines 25-34
        /\ df' = d
        /\ num_registros' = Len(d)
        /\ num_columnas' = Cardinality(Columns)
        /\ num_departamentos' = calc_num_departamentos(d)
        /\ num_anios' = nunique(Columna(d, "anio"))
        /\ anio_min' = IF Hecho(33) THEN minimo ELSE 0
        /\ anio_max' = IF Hecho(34) THEN maximo ELSE 0
        \* lines 36-61
        /\ df_ciclo' = IF Hecho(34) THEN value_counts(Columna(d, "ciclo")) ELSE <<>>
        /\ df_genero' = IF Hecho(34) THEN genero ELSE <<>>
        /\ df_genero_ciclo' = IF Hecho(34) THEN groupby_ciclo_sexo(d) ELSE <<>>
        /\ df_temporal' = IF Hecho(34) THEN temporal ELSE <<>>
        /\ indicadores' = IF Hecho(34) THEN ind ELSE <<>>
        \* lines 64-94
        /\ deltas' = IF Hecho(68) THEN del ELSE <<>>
        /\ df_depto_anio' = IF Hecho(68) THEN depto_anio ELSE <<>>
        /\ lista_deptos' = IF Hecho(68) THEN lista ELSE <<>>
        /\ df_escenario' = IF Hecho(68) THEN top(d, "escenario") ELSE <<>>
        /\ df_mecanismo' = IF Hecho(68) THEN top(d, "mecanismo") ELSE <<>>
        /\ df_razones' = IF Hecho(68) THEN top(d, "razon") ELSE <<>>
        /\ df_razones_filtrado' = IF Hecho(68) THEN top_sin_sentinel(d, "razon") ELSE <<>>
        /\ calculos_fijos' = IF Hecho(68) THEN calculos_fijos + 1 ELSE calculos_fijos
        \* lines 315-316
        /\ hombres' = IF Hecho(315) THEN cantidad_genero(genero, "Hombre")[1] ELSE 0
        /\ mujeres' = IF Hecho(316) THEN cantidad_genero(genero, "Mujer")[1] ELSE 0
        \* lines 403-430
        /\ variacion_total' = IF Hecho(316) THEN calc_variacion_total(temporal) ELSE <<>>
        /\ depto_seleccionado' = IF Hecho(316) THEN depsel ELSE depto_seleccionado
        /\ df_depto_filtrado' =
              IF Hecho(316) THEN filtrar_igual(depto_anio, "depto", depsel) ELSE <<>>
        \* lines 535-564
        /\ incluir_sin_info' = IF Hecho(316) THEN inc ELSE incluir_sin_info
        /\ ciclo_seleccionado' = IF Hecho(316) THEN ciclosel ELSE ciclo_seleccionado
        /\ genero_seleccionado' = IF Hecho(316) THEN gensel ELSE genero_seleccionado
        /\ df_filtrado' = IF Hecho(316) THEN filtrado ELSE <<>>
        /\ df_razones_dinamico' = IF Hecho(316) THEN dinamico ELSE <<>>
        /\ calculos_dinamicos' =
              IF Hecho(316) THEN calculos_dinamicos + 1 ELSE calculos_dinamicos
        \* lines 597-623
        /\ top5' = IF Hecho(316) THEN head(dinamico, 5) ELSE <<>>
        /\ hallazgo' = IF Hecho(603) THEN hz ELSE [tipo |-> "ninguno"]

----------------------------------------------------------------------------
(* The state machine *)

Init ==
    /\ archivo \in Tablas
    /\ estado = "inicio"
    /\ linea_error = 0
    /\ definidas = {}
    /\ cargas = 0 /\ calculos_fijos = 0 /\ calculos_dinamicos = 0
    /\ incluir_sin_info = FALSE
    /\ ciclo_seleccionado = "Todos"
    /\ genero_seleccionado = "Todos"
    /\ depto_seleccionado = ""
    /\ df = <<>>
    /\ num_registros = 0 /\ num_columnas = 0 /\ num_departamentos = 0
    /\ num_anios = 0 /\ anio_min = 0 /\ anio_max = 0
    /\ df_ciclo = <<>> /\ df_genero = <<>> /\ df_genero_ciclo = <<>>
    /\ df_temporal = <<>> /\ indicadores = <<>> /\ deltas = <<>>
    /\ df_depto_anio = <<>> /\ lista_deptos = <<>>
    /\ df_escenario = <<>> /\ df_mecanismo = <<>>
    /\ df_razones = <<>> /\ df_razones_filtrado = <<>>
    /\ df_depto_filtrado = <<>> /\ df_filtrado = <<>> /\ df_razones_dinamico = <<>>
    /\ hombres = 0 /\ mujeres = 0 /\ variacion_total = <<>>
    /\ top5 = <<>> /\ hallazgo = [tipo |-> "ninguno"]

\* A session starts: the first run of the script, with the widgets' defaults.
Iniciar ==
    /\ estado = "inicio"
    /\ Script(incluir_sin_info, ciclo_seleccionado, genero_seleccionado, depto_seleccionado)

\* The user toggles the checkbox of line 535.
CambiarIncluir ==
    /\ estado = "ok" /\ cargas < MaxRuns
    /\ Script(~incluir_sin_info, ciclo_seleccionado, genero_seleccionado, depto_seleccionado)

\* The user picks another option of the selectbox of lines 538-541.
CambiarCiclo ==
    /\ estado = "ok" /\ cargas < MaxRuns
    /\ \E c \in Valores(opciones_ciclo(df)) \ {ciclo_seleccionado} :
          Script(incluir_sin_info, c, genero_seleccionado, depto_seleccionado)

\* The user picks another option of the selectbox of lines 544-547.
CambiarGenero ==
    /\ estado = "ok" /\ cargas < MaxRuns
    /\ \E g \in Valores(opciones_genero) \ {genero_seleccionado} :
          Script(incluir_sin_info, ciclo_seleccionado, g, depto_seleccionado)

\* The user picks another option of the selectbox of lines 423-427.
CambiarDepto ==
    /\ estado = "ok" /\ cargas < MaxRuns
    /\ \E dp \in Valores(lista_deptos) \ {depto_seleccionado} :
          Script(incluir_sin_info, ciclo_seleccionado, genero_seleccionado, dp)

Next == Iniciar \/ CambiarIncluir \/ CambiarCiclo \/ CambiarGenero \/ CambiarDepto

Spec == Init /\ [][Next]_vars

----------------------------------------------------------------------------
(* Vocabulary of the properties, stated on the rows themselves *)

\* A row of the file with no missing field.
FilaCompleta(r) == \A c \in Columns : r[c] \notin NaValues

Completas == {i \in DOMAIN archivo : FilaCompleta(archivo[i])}

\* The index in the file of the k-th fully populated row.
KesimaCompleta(k) ==
    CHOOSE i \in Completas : Cardinality({j \in Completas : j <= i}) = k

\* Number of rows of d whose column c holds v.
Cuenta(d, c, v) == Cardinality({i \in DOMAIN d : d[i][c] = v})

Claves(d, c) == {d[i][c] : i \in DOMAIN d}

\* The row passes the life-cycle and sex selections.
Pasa(r, cic, gen) ==
    /\ cic # "Todos" => r.ciclo = cic
    /\ gen # "Todos" => r.sexo = gen

Seleccionadas == {i \in DOMAIN df : Pasa(df[i], ciclo_seleccionado, genero_seleccionado)}

CuentaSel(v) == Cardinality({i \in Seleccionadas : df[i].razon = v})

ClavesSel == {df[i].razon : i \in Seleccionadas}

\* v is a top-TopN view of the keys K with the counts N(k): at most TopN
\* entries, all of K when K is small, true counts, no key twice, counts
\* non-increasing, and no excluded key with a larger count than a kept one.
EsTop(v, K, N(_)) ==
    /\ Len(v) = Min2(TopN, Cardinality(K))
    /\ \A i \in DOMAIN v : v[i].key \in K /\ v[i].Cantidad = N(v[i].key)
    /\ \A i, j \in DOMAIN v : i < j => v[i].key # v[j].key /\ v[i].Cantidad >= v[j].Cantidad
    /\ \A k \in K : (\A i \in DOMAIN v : v[i].key # k) =>
                        \A i \in DOMAIN v : N(k) <= v[i].Cantidad

----------------------------------------------------------------------------
(* C1 *)

\* C1: cargar_datos keeps a row of the file if and only if none of its seven
\* fields is missing: the cleaned Dataset is, in file order, exactly the fully
\* populated rows (a 'Sin informacion' field is a value, not a missing one).
C1_FiltroEstricto ==
    cargas > 0 =>
        /\ Len(df) = Cardinality(Completas)
        /\ \A k \in DOMAIN df :
              /\ df[k].anio = ParseInt(archivo[KesimaCompleta(k)].anio)
              /\ \A c \in columnas_str : df[k][c] = archivo[KesimaCompleta(k)][c]

\* A run that dropped a row whose only missing field is the year and kept a
\* row whose reason is the sentinel.
C1_Witness ==
    /\ cargas > 0
    /\ \E i \in DOMAIN archivo :
          /\ archivo[i].anio \in NaValues
          /\ \A c \in columnas_str : archivo[i][c] \notin NaValues
    /\ \E k \in DOMAIN df : df[k].razon = Sentinel
    /\ Len(df) < Len(archivo)

----------------------------------------------------------------------------
(* C2 *)

\* C2: the counts per life-cycle stage and per sex each sum to the number of
\* rows of the Dataset, and the untruncated counts of the non-sentinel reasons
\* plus the number of rows with the sentinel reason give the number of rows.
C2_SumasCuadran ==
    {"df_ciclo", "df_genero"} \subseteq definidas =>
        /\ Suma(df_ciclo) = Len(df)
        /\ Suma(df_genero) = Len(df)
        /\ Suma(top_sin_truncar(filtrar_distinto(df, "razon", Sentinel), "razon"))
              + Cuenta(df, "razon", Sentinel) = Len(df)
        /\ Suma(top_sin_truncar(df, "razon")) = Len(df)

\* A page over a Dataset with two stages, both sexes, the sentinel reason and
\* more than TopN other reasons.
C2_Witness ==
    /\ estado = "ok"
    /\ Len(df_ciclo) >= 2 /\ Len(df_genero) >= 2
    /\ Cuenta(df, "razon", Sentinel) >= 1
    /\ Cardinality(Claves(df, "razon") \ {Sentinel}) > TopN

----------------------------------------------------------------------------
(* C3 *)

\* C3: with the checkbox off, the filtered top reasons are the top 10 of the
\* non-sentinel reasons of the selected rows (never the sentinel, with
\* min(10, number of distinct non-sentinel reasons) entries); the fixed view
\* df_razones_filtrado is the same over all rows.
C3_SinSentinel ==
    /\ ("df_razones_dinamico" \in definidas /\ ~incluir_sin_info) =>
          EsTop(df_razones_dinamico, ClavesSel \ {Sentinel}, CuentaSel)
    /\ "df_razones_filtrado" \in definidas =>
          EsTop(df_razones_filtrado, Claves(df, "razon") \ {Sentinel},
                LAMBDA k : Cuenta(df, "razon", k))

\* The checkbox is off, the sentinel is the most frequent reason of the
\* selected rows, and more than 10 other reasons occur in them.
C3_Witness ==
    /\ estado = "ok" /\ ~incluir_sin_info
    /\ Cardinality(ClavesSel \ {Sentinel}) > TopN
    /\ \A k \in ClavesSel \ {Sentinel} : CuentaSel(Sentinel) > CuentaSel(k)
    /\ Len(df_razones_dinamico) = TopN

----------------------------------------------------------------------------
(* C4 *)

\* C4: df_temporal has one entry per distinct year of the Dataset, with the
\* number of rows of that year (so never 0), in strictly increasing year order.
C4_SerieAnual ==
    "df_temporal" \in definidas =>
        /\ {df_temporal[i].anio : i \in DOMAIN df_temporal} = Claves(df, "anio")
        /\ Len(df_temporal) = Cardinality(Claves(df, "anio"))
        /\ \A i, j \in DOMAIN df_temporal :
              i < j => df_temporal[i].anio < df_temporal[j].anio
        /\ \A i \in DOMAIN df_temporal :
              /\ df_temporal[i].Cantidad = Cuenta(df, "anio", df_temporal[i].anio)
              /\ df_temporal[i].Cantidad >= 1

\* A series with a year of several records and a gap: a year between the first
\* and the last one that has no entry.
C4_Witness ==
    /\ estado = "ok"
    /\ \E i \in DOMAIN df_temporal : df_temporal[i].Cantidad >= 2
    /\ \E y \in anio_min..anio_max :
          \A i \in DOMAIN df_temporal : df_temporal[i].anio # y

----------------------------------------------------------------------------
(* C5 *)

\* C5: the indicator of each configured year is the number of rows of that
\* year (0 when there is none); the delta of 2021 is 0; the delta of a later
\* year y is (count[y] - count[y-1]) / count[y-1] when count[y-1] is not 0 and
\* 0 otherwise; no run divides by zero.
C5_Deltas ==
    /\ estado # "ZeroDivisionError"
    /\ "deltas" \in definidas =>
          /\ DOMAIN indicadores = {2021, 2022, 2023, 2024}
          /\ DOMAIN deltas = {2021, 2022, 2023, 2024}
          /\ \A y \in {2021, 2022, 2023, 2024} :
                /\ indicadores[y] = Cuenta(df, "anio", y)
                /\ deltas[y].den # 0
          /\ deltas[2021].num = 0
          /\ \A y \in {2022, 2023, 2024} :
                IF Cuenta(df, "anio", y - 1) # 0
                THEN /\ deltas[y].num = Cuenta(df, "anio", y) - Cuenta(df, "anio", y - 1)
                     /\ deltas[y].den = Cuenta(df, "anio", y - 1)
                ELSE deltas[y].num = 0

\* A configured year with records whose previous year has none, next to a
\* year with a nonzero delta.
C5_Witness ==
    /\ estado = "ok"
    /\ \E y \in {2022, 2023, 2024} : indicadores[y - 1] = 0 /\ indicadores[y] > 0
    /\ \E y \in {2022, 2023, 2024} : deltas[y].num # 0

----------------------------------------------------------------------------
(* C6 *)

\* C6: num_departamentos is the number of distinct departments other than the
\* sentinel; lista_deptos holds every distinct department, the sentinel
\* included, once each in ascending order; so the two differ by 1 when the
\* sentinel occurs and by 0 when it does not.
C6_Departamentos ==
    /\ cargas > 0 =>
          /\ num_departamentos = Cardinality(Claves(df, "depto") \ {Sentinel})
          /\ Claves(df, "depto") \subseteq {Sentinel} => num_departamentos = 0
    /\ "lista_deptos" \in definidas =>
          /\ Valores(lista_deptos) = Claves(df, "depto")
          /\ \A i, j \in DOMAIN lista_deptos :
                i < j => StrLess(lista_deptos[i], lista_deptos[j])
          /\ Len(lista_deptos) - num_departamentos =
                IF Sentinel \in Claves(df, "depto") THEN 1 ELSE 0

\* The sentinel department occurs next to two named departments.
C6_Witness ==
    /\ estado = "ok"
    /\ Sentinel \in Valores(lista_deptos)
    /\ num_departamentos = 2
    /\ Len(lista_deptos) = 3

----------------------------------------------------------------------------
(* C7 *)

\* C7: the file is loaded once and the fixed aggregates are computed once,
\* whatever number of filter-selection changes follows.
C7_UnaSolaCarga == cargas <= 1 /\ calculos_fijos <= 1

----------------------------------------------------------------------------
(* C8 *)

\* C8: the rows counted by the filtered top reasons are exactly the rows of
\* the Dataset that equal the chosen stage (unless 'Todos') and the chosen sex
\* (unless 'Todos'), in Dataset order, and each count of the view is the
\* number of those rows with that reason.
C8_Filtros ==
    {"df_filtrado", "df_razones_dinamico"} \subseteq definidas =>
        /\ Len(df_filtrado) = Cardinality(Seleccionadas)
        /\ \A k \in DOMAIN df_filtrado :
              df_filtrado[k] =
                 df[CHOOSE i \in Seleccionadas :
                        Cardinality({j \in Seleccionadas : j <= i}) = k]
        /\ \A k \in DOMAIN df_razones_dinamico :
              df_razones_dinamico[k].Cantidad = CuentaSel(df_razones_dinamico[k].key)

\* Both filters are active, some rows pass, and some row passes the stage
\* filter alone and another the sex filter alone.
C8_Witness ==
    /\ estado = "ok"
    /\ ciclo_seleccionado # "Todos" /\ genero_seleccionado # "Todos"
    /\ Seleccionadas # {}
    /\ \E i \in DOMAIN df :
          df[i].ciclo = ciclo_seleccionado /\ df[i].sexo # genero_seleccionado
    /\ \E i \in DOMAIN df :
          df[i].ciclo # ciclo_seleccionado /\ df[i].sexo = genero_seleccionado

----------------------------------------------------------------------------
(* C9 *)

\* C9: on a Dataset with zero rows the summary ends in EmptyDatasetError and
\* the other aggregates are computed all the same.
C9_DatasetVacio ==
    (cargas > 0 /\ Len(df) = 0) =>
        /\ estado = "EmptyDatasetError"
        /\ NombresFijos \ {"anio_min", "anio_max"} \subseteq definidas

----------------------------------------------------------------------------
(* C10 *)

\* C10: each top-10 view (scene, mechanism, reason, filtered reason) has at
\* most 10 entries with their true counts in non-increasing order, and no key
\* left out has a larger count than a key of the view.
C10_Top10 ==
    /\ {"df_escenario", "df_mecanismo", "df_razones"} \subseteq definidas =>
          /\ EsTop(df_escenario, Claves(df, "escenario"),
                   LAMBDA k : Cuenta(df, "escenario", k))
          /\ EsTop(df_mecanismo, Claves(df, "mecanismo"),
                   LAMBDA k : Cuenta(df, "mecanismo", k))
          /\ EsTop(df_razones, Claves(df, "razon"), LAMBDA k : Cuenta(df, "razon", k))
    /\ "df_razones_dinamico" \in definidas =>
          EsTop(df_razones_dinamico,
                IF incluir_sin_info THEN ClavesSel ELSE ClavesSel \ {Sentinel},
                CuentaSel)

\* Views that are truncated (more than 10 keys) and whose counts differ.
C10_Witness ==
    /\ estado = "ok"
    /\ Cardinality(Claves(df, "escenario")) > TopN
    /\ Cardinality(Claves(df, "razon")) > TopN
    /\ Len(df_razones) = TopN
    /\ df_razones[1].Cantidad > df_razones[TopN].Cantidad
    /\ df_escenario[1].Cantidad > df_escenario[TopN].Cantidad
    /\ incluir_sin_info /\ Len(df_razones_dinamico) = TopN

----------------------------------------------------------------------------
(* C11 *)

\* The keys the filtered top reasons are counted over.
ClavesVista == IF incluir_sin_info THEN ClavesSel ELSE ClavesSel \ {Sentinel}

\* C11: when the selection leaves no row to count (no row passes the filters,
\* or only sentinel rows pass with the checkbox off), the run that computed
\* the filtered top reasons ends without an error, the view is empty, the
\* top-5 loop has nothing to iterate over, and the page shows the 'no data'
\* warning, reading no entry of the view.
C11_SeleccionVacia ==
    ("df_razones_dinamico" \in definidas /\ ClavesVista = {}) =>
        /\ estado = "ok" /\ linea_error = 0
        /\ df_razones_dinamico = <<>>
        /\ top5 = <<>>
        /\ hallazgo = [tipo |-> "warning"]

\* Both filters are active on a Dataset with rows, no row passes them, and
\* the page shows the warning.
C11_Witness ==
    /\ estado = "ok" /\ Len(df) > 0
    /\ ciclo_seleccionado # "Todos" /\ genero_seleccionado # "Todos"
    /\ Seleccionadas = {}
    /\ hallazgo.tipo = "warning"

----------------------------------------------------------------------------
(* C12 *)

\* A step taken after the first run: the file, the Dataset, the general
\* figures and the fixed aggregates keep their values, and the view after
\* the step is the top reasons of the rows of the Dataset that pass the
\* selection then current.
PasoDeSeleccion ==
    cargas > 0 =>
        /\ archivo' = archivo /\ df' = df
        /\ generales' = generales /\ fijos' = fijos
        /\ hombres' = hombres /\ mujeres' = mujeres
        /\ variacion_total' = variacion_total
        /\ "df_razones_dinamico" \in definidas' =>
              \E d \in {df'}, cic \in {ciclo_seleccionado'},
                 gen \in {genero_seleccionado'}, inc \in {incluir_sin_info'} :
              \E f \in {SelectSeq(d, LAMBDA r : Pasa(r, cic, gen))} :
                 df_razones_dinamico' = calc_razones_dinamico(f, inc)

\* C12: every change of a filter selection leaves the Dataset and every fixed
\* aggregate with the values of the first run, and the filtered top reasons
\* after it are determined by the Dataset and the selection then current,
\* whatever was selected before.
C12_SoloSeleccionActual == [][PasoDeSeleccion]_vars

\* The third run of a session: the sex filter was moved from 'Todos' to one
\* sex and then to the other (nothing else differs from the first run), and
\* rows of the Dataset pass it.
C12_Witness ==
    /\ estado = "ok" /\ cargas = 3
    /\ ~incluir_sin_info /\ ciclo_seleccionado = "Todos"
    /\ depto_seleccionado = selectbox(lista_deptos, depto_index(lista_deptos), "")
    /\ genero_seleccionado # "Todos"
    /\ df_filtrado # <<>> /\ df_filtrado # df
    /\ df_razones_dinamico # <<>>

----------------------------------------------------------------------------
(* C13 *)

\* C13: on a Dataset with rows, every entry of df_temporal counts at least
\* one row and its first entry is the earliest year; the total variation,
\* when the run computes it, is (count of the last year - count of the first
\* year) * 100 over the count of the first year, and that divisor is not 0.
C13_VariacionTotal ==
    Len(df) > 0 =>
        /\ "df_temporal" \in definidas
        /\ df_temporal # <<>>
        /\ \A i \in DOMAIN df_temporal : df_temporal[i].Cantidad >= 1
        /\ df_temporal[1].anio = anio_min
        /\ df_temporal[Len(df_temporal)].anio = anio_max
        /\ "variacion_total" \in definidas =>
              /\ variacion_total.den = Cuenta(df, "anio", anio_min)
              /\ variacion_total.den # 0
              /\ variacion_total.num =
                    (Cuenta(df, "anio", anio_max) - Cuenta(df, "anio", anio_min)) * 100

\* The variation of a series of several years whose first and last counts
\* differ and whose first year has several records.
C13_Witness ==
    /\ "variacion_total" \in definidas
    /\ Len(df_temporal) >= 2
    /\ df_temporal[1].Cantidad >= 2
    /\ variacion_total.num # 0

====
